---- MODULE Spec2Model ----
(***************************************************************************)
(* Barber Empire dashboard (src/unnamed/part_001): the persisted AppData   *)
(* snapshot, the handlers that replace it, and the calculations the        *)
(* Dashboard render derives from it and from the wall clock.               *)
(*                                                                         *)
(* Time is counted in ticks; TicksPerDay ticks make one day.  A Date is    *)
(* the number of ticks since 00:00 UTC of 1 January EpochYear, and the     *)
(* local fields of a Date are those of the instant shifted by tz ticks     *)
(* (a fixed-offset time zone, no daylight saving).                         *)
(* A JS number that may be fractional is a pair <<n, d>>: the rational n/d *)
(* in lowest terms with d > 0, and <<1,0>>, <<-1,0>>, <<0,0>> for          *)
(* Infinity, -Infinity and NaN.  Floating-point rounding is not modelled.  *)
(***************************************************************************)
EXTENDS Integers, Sequences, FiniteSets, TLC

VARIABLES
    clock,        \* the wall clock: the Date that `new Date()` returns now
    tz,           \* local time = UTC + tz ticks
    ticks,        \* clock advances since the page was first opened
    storage,      \* localStorage[STORAGE_KEY]
    data,         \* useState<AppData>: the in-memory snapshot
    crashed,      \* a render threw: the component tree is unmounted
    view,         \* the values of the last Dashboard render (Calculations)
    historyOpen,  \* useState historyOpen
    historyList   \* HistoryModal's historyList of the last render

vars == <<clock, tz, ticks, storage, data, crashed, view,
          historyOpen, historyList>>

(***************************************************************************)
(* Bounds                                                                  *)
(***************************************************************************)
TicksPerDay == 3    \* clock readings per day
MaxTicks == 1       \* clock advances per run
MaxTx == 2          \* transactions the handlers append to one log
MaxExp == 1         \* expenses the handlers keep in one list

(***************************************************************************)
(* JS numbers                                                              *)
(***************************************************************************)
Abs(x) == IF x < 0 THEN -x ELSE x

Sign(x) == IF x < 0 THEN -1 ELSE IF x > 0 THEN 1 ELSE 0

RECURSIVE GCD(_, _)
GCD(a, b) == IF b = 0 THEN a ELSE GCD(b, a % b)

NaN == <<0, 0>>
Infinity == <<1, 0>>

Num(n) == <<n, 1>>

IsNaN(a) == a = NaN

\* n/d with the common factor g removed and the sign in the numerator
Reduce(n, d, g) ==
    IF d < 0 THEN <<(-n) \div g, (-d) \div g>> ELSE <<n \div g, d \div g>>

\* n/d as a JS number; d = 0 gives NaN or a signed Infinity
Normalize(n, d) ==
    IF d = 0 THEN <<Sign(n), 0>> ELSE Reduce(n, d, GCD(Abs(n), Abs(d)))

NumAdd(a, b) ==
    IF a[2] = 0 /\ b[2] = 0
    THEN (IF a = b THEN a ELSE NaN)
    ELSE Normalize(a[1] * b[2] + b[1] * a[2], a[2] * b[2])

NumNeg(a) == <<-a[1], a[2]>>

NumSub(a, b) == NumAdd(a, NumNeg(b))

NumMul(a, b) == Normalize(a[1] * b[1], a[2] * b[2])

NumRecip(b) ==
    IF IsNaN(b) THEN NaN
    ELSE IF b[1] = 0 THEN Infinity
    ELSE Normalize(Sign(b[1]) * b[2], Abs(b[1]))

NumDiv(a, b) == NumMul(a, NumRecip(b))

\* a < b; every comparison with NaN is false
NumLess(a, b) ==
    IF IsNaN(a) \/ IsNaN(b) THEN FALSE
    ELSE IF a[2] = 0 /\ b[2] = 0 THEN a[1] < b[1]
    ELSE a[1] * b[2] < b[1] * a[2]

NumLeq(a, b) ==
    IF IsNaN(a) \/ IsNaN(b) THEN FALSE ELSE ~NumLess(b, a)

MathMin(a, b) ==
    IF IsNaN(a) \/ IsNaN(b) THEN NaN
    ELSE IF NumLess(b, a) THEN b ELSE a

MathMax(a, b) ==
    IF IsNaN(a) \/ IsNaN(b) THEN NaN
    ELSE IF NumLess(a, b) THEN b ELSE a

MathCeil(a) ==
    IF a[2] = 0 THEN a ELSE Num(-((-a[1]) \div a[2]))

(***************************************************************************)
(* Date: the calendar                                                      *)
(***************************************************************************)
EpochYear == 2023
EpochWeekday == 0     \* 1 January 2023 is a Sunday (getDay() = 0)

IsLeap(y) == (y % 4 = 0 /\ y % 100 # 0) \/ y % 400 = 0

DaysInYear(y) == IF IsLeap(y) THEN 366 ELSE 365

\* m is a JS month, 0..11
DaysInMonth(y, m) ==
    IF m = 1 THEN (IF IsLeap(y) THEN 29 ELSE 28)
    ELSE IF m \in {3, 5, 8, 10} THEN 30 ELSE 31

RECURSIVE DaysBeforeYear(_)
DaysBeforeYear(y) ==
    IF y <= EpochYear THEN 0 ELSE DaysBeforeYear(y - 1) + DaysInYear(y - 1)

RECURSIVE DaysBeforeMonth(_, _)
DaysBeforeMonth(y, m) ==
    IF m = 0 THEN 0 ELSE DaysBeforeMonth(y, m - 1) + DaysInMonth(y, m - 1)

\* day number of year y, month m (any integer), day d (any integer):
\* months and days out of range carry, as in the Date constructor
DaysFromCivil(y, m, d) ==
    LET yy == y + (m \div 12)
        mm == m % 12
    IN  DaysBeforeYear(yy) + DaysBeforeMonth(yy, mm) + d - 1

\* [year, month 0..11, date 1..31, tod] of day number n >= 0 counted from
\* the first day of month m of year y, at time of day tod
RECURSIVE Civil(_, _, _, _)
Civil(n, y, m, tod) ==
    IF n < DaysInMonth(y, m)
    THEN [year |-> y, month |-> m, date |-> n + 1, tod |-> tod]
    ELSE IF m = 11 THEN Civil(n - DaysInMonth(y, m), y + 1, 0, tod)
    ELSE Civil(n - DaysInMonth(y, m), y, m + 1, tod)

\* the UTC fields of Date t
UtcFields(t) == Civil(t \div TicksPerDay, EpochYear, 0, t % TicksPerDay)

\* the local fields of Date t
LocalFields(t) == UtcFields(t + tz)

\* new Date(year, month, date, ...time) in local time
MakeLocal(y, m, d, tod) == DaysFromCivil(y, m, d) * TicksPerDay + tod - tz

getFullYear(t) == LocalFields(t).year
getMonth(t) == LocalFields(t).month
getDate(t) == LocalFields(t).date
getDay(t) == (EpochWeekday + ((t + tz) \div TicksPerDay)) % 7

\* the Date with local fields f set to 00:00:00.000
MidnightOf(f) == MakeLocal(f.year, f.month, f.date, 0)

\* d.setHours(0, 0, 0, 0)
setHours0(t) == MidnightOf(LocalFields(t))

\* the Date with local fields f and its day of the month set to n
WithDate(f, n) == MakeLocal(f.year, f.month, n, f.tod)

\* d.setDate(n)
setDate(t, n) == WithDate(LocalFields(t), n)

\* "YYYY-MM-DDTHH:mm:ss.sssZ" as a tuple (JS months count from 0)
IsoOf(f) == <<f.year, f.month + 1, f.date, f.tod>>

\* d.toISOString(): the UTC fields
toISOString(t) == IsoOf(UtcFields(t))

\* new Date(iso)
ParseISO(s) == DaysFromCivil(s[1], s[2] - 1, s[3]) * TicksPerDay + s[4]

\* a < b on strings of the same fixed-width layout: field by field
RECURSIVE LexLess(_, _)
LexLess(a, b) ==
    IF a = <<>> \/ b = <<>> THEN a = <<>> /\ b # <<>>
    ELSE IF Head(a) # Head(b) THEN Head(a) < Head(b)
    ELSE LexLess(Tail(a), Tail(b))

StrGeq(a, b) == ~LexLess(a, b)

\* "Mon Jan 29 2024" as a tuple: weekday, month, date, year
DateStringOf(f, day) == <<day, f.month, f.date, f.year>>

\* d.toDateString(): the local fields
toDateString(t) == DateStringOf(LocalFields(t), getDay(t))

(***************************************************************************)
(* AppData, localStorage and the form inputs                               *)
(***************************************************************************)
AVG_CUT_PRICE == 35

GoalTypes == {"weekly", "monthly"}

\* what the user can have typed into an <input type="number"> or a name box
TxAmountInputs == {"", "-50", "200"}
GoalAmountInputs == {"", "0", "100"}
ExpAmountInputs == {"", "70"}
NameInputs == {"", "Ana"}
SimulatorInputs == {"20"}

\* the three ways the Dashboard opens the transaction modal
ModalChoices ==
    { [type |-> "cash", category |-> "service"],
      [type |-> "card", category |-> "service"],
      [type |-> "cash", category |-> "tip"] }

\* parseInt of the value of the simulator's range input
parseInt(s) ==
    CASE s = "0"  -> 0
      [] s = "20" -> 20

\* parseFloat of the strings above
parseFloat(s) ==
    CASE s = "0"    -> 0
      [] s = "-50"  -> -50
      [] s = "10"   -> 10
      [] s = "50"   -> 50
      [] s = "70"   -> 70
      [] s = "100"  -> 100
      [] s = "200"  -> 200
      [] s = "1000" -> 1000

\* a string is truthy unless it is empty
Truthy(s) == s # ""

AllKeys == {"user", "transactions", "expenses"}

\* A JS value that JSON.parse can return: null, a number, or an object with
\* the own keys `has`.  user is <<>> (null or undefined) or <<UserData>>; an
\* absent key holds the empty placeholder.
JsValue(js, has, user, transactions, expenses) ==
    [js |-> js, has |-> has, user |-> user,
     transactions |-> transactions, expenses |-> expenses]

JsNull == JsValue("null", {}, <<>>, <<>>, <<>>)
JsNumber == JsValue("number", {}, <<>>, <<>>, <<>>)

\* { user: null, transactions: [], expenses: [] }
EmptyData == JsValue("object", AllKeys, <<>>, <<>>, <<>>)

UserData(name, goalType, goalAmount, simulatorValue) ==
    [name |-> name, goalType |-> goalType, goalAmount |-> goalAmount,
     simulatorValue |-> simulatorValue]

Transaction(id, amount, type, category, date) ==
    [id |-> id, amount |-> amount, type |-> type, category |-> category,
     date |-> date]

Expense(id, name, amount, frequency) ==
    [id |-> id, name |-> name, amount |-> amount, frequency |-> frequency]

\* localStorage.getItem(STORAGE_KEY): nothing, text that is not JSON, or JSON
Missing == [kind |-> "missing", value |-> JsNull]
Garbage == [kind |-> "text", value |-> JsNull]
Json(v) == [kind |-> "json", value |-> v]

\* a save that leaves the user out
saveData_NoUser(d) == Json([d EXCEPT !.user = <<>>])

\* JSON.stringify(data) as stored by saveData
saveData(d) == Json(d)

getInitialData(saved) ==
    IF saved.kind = "missing" THEN EmptyData
    ELSE IF saved.kind = "text" THEN EmptyData            \* JSON.parse throws
    ELSE LET parsed == saved.value IN
         IF parsed.js = "null" THEN EmptyData             \* parsed.user throws
         ELSE IF parsed.user # <<>> /\ parsed.user[1].simulatorValue = <<>>
              THEN [parsed EXCEPT !.user[1].simulatorValue = <<0>>]
              ELSE parsed

\* A snapshot an earlier session left behind, as found when the page is opened
\* at Date c: a user saved without simulatorValue, a transaction saved without
\* category, and a log that is not in time order.
LegacySnapshot(c, gt) ==
    JsValue("object", AllKeys,
            <<UserData("Ana", gt, 1000, <<>>)>>,
            <<Transaction(c - 1, 200, "cash", "undefined", toISOString(c - 1)),
              Transaction(c - 1 - 2 * TicksPerDay, 50, "card", "service",
                          toISOString(c - 1 - 2 * TicksPerDay))>>,
            <<>>)

StoredRecords(c) ==
    { Missing, Garbage, Json(JsNull), Json(JsNumber),
      Json(JsValue("object", {}, <<>>, <<>>, <<>>)),
      Json(JsValue("object", {"user"}, <<>>, <<>>, <<>>)),
      Json(EmptyData) }
    \cup { Json(LegacySnapshot(c, gt)) : gt \in GoalTypes }

(***************************************************************************)
(* getStartOfPeriod and the Dashboard calculations                         *)
(***************************************************************************)
\* diff without the Sunday case
WeekDiff_NoSundayCase(date, day) == date - day + 1

\* const diff = d.getDate() - day + (day === 0 ? -6 : 1)
WeekDiff(date, day) == date - day + (IF day = 0 THEN -6 ELSE 1)

\* getStartOfPeriod once d.setHours(0, 0, 0, 0) is done: d is the Date,
\* f its local fields
StartOfPeriodFrom(d, f, type) ==
    IF type = "monthly" THEN WithDate(f, 1)
    ELSE WithDate(f, WeekDiff(f.date, getDay(d)))

getStartOfPeriod(date, type) ==
    StartOfPeriodFrom(setHours0(date), LocalFields(setHours0(date)), type)

\* transactions.reduce((sum, t) => sum + t.amount, 0)
RECURSIVE SumAmounts(_)
SumAmounts(txs) ==
    IF txs = <<>> THEN Num(0)
    ELSE NumAdd(SumAmounts(SubSeq(txs, 1, Len(txs) - 1)),
                Num(txs[Len(txs)].amount))

\* every expense counted in full, whatever its frequency
ExpenseShare_Whole(exp) == Num(exp.amount)

\* the weekly share spread over a 30-day month
ExpenseShare_Monthly(exp) ==
    IF exp.frequency = "daily" THEN Num(exp.amount)
    ELSE NumDiv(Num(exp.amount), Num(30))

ExpenseShare(exp) ==
    IF exp.frequency = "daily" THEN Num(exp.amount)
    ELSE NumDiv(Num(exp.amount), Num(7))

\* expenses.reduce((sum, exp) => ..., 0)
RECURSIVE DailyExpenses(_)
DailyExpenses(exps) ==
    IF exps = <<>> THEN Num(0)
    ELSE NumAdd(DailyExpenses(SubSeq(exps, 1, Len(exps) - 1)),
                ExpenseShare(exps[Len(exps)]))

\* transactionsToday with a strict comparison
TransactionsToday_Strict(txs, now) ==
    LET startOfDayStr == toISOString(setHours0(now))
        Keep(t) == LexLess(startOfDayStr, t.date)
    IN  SelectSeq(txs, Keep)

TransactionsToday(txs, now) ==
    LET startOfDayStr == toISOString(setHours0(now))
        Keep(t) == StrGeq(t.date, startOfDayStr)
    IN  SelectSeq(txs, Keep)

\* the tip filter as "not a service"
TipsOf_NotService(txs) ==
    LET IsTip(t) == t.category # "service" IN SelectSeq(txs, IsTip)

TipsOf(txs) ==
    LET IsTip(t) == t.category = "tip" IN SelectSeq(txs, IsTip)

TransactionsPeriod(txs, startOfPeriod) ==
    LET Keep(t) == ParseISO(t.date) >= startOfPeriod IN SelectSeq(txs, Keep)

\* goalProgress without Math.min
GoalProgress_NoClamp(periodTotal, goalAmount) ==
    NumMul(NumDiv(periodTotal, Num(goalAmount)), Num(100))

GoalProgress(periodTotal, goalAmount) ==
    MathMin(Num(100), NumMul(NumDiv(periodTotal, Num(goalAmount)), Num(100)))

\* the weekly daysLeft with Sunday left as day 0
WeekDaysLeft_SundayZero(day) == 7 - day + 1

\* daysLeft = 7 - (day === 0 ? 7 : day) + 1
WeekDaysLeft(day) == 7 - (IF day = 0 THEN 7 ELSE day) + 1

\* new Date(nowObj.getFullYear(), nowObj.getMonth() + 1, 0), f the local
\* fields of nowObj
LastDayOfMonth(f) == MakeLocal(f.year, f.month + 1, 0, 0)

DaysLeft(now, goalType) ==
    IF goalType = "weekly" THEN WeekDaysLeft(getDay(now))
    ELSE getDate(LastDayOfMonth(LocalFields(now))) - getDate(now) + 1

RemainingGoal(goalAmount, periodTotal) ==
    MathMax(Num(0), NumSub(Num(goalAmount), periodTotal))

CutsNeededTotal(remainingGoal) == NumDiv(remainingGoal, Num(AVG_CUT_PRICE))

\* cutsPerDay rounded to the nearest integer instead of up
CutsPerDay_Round(cutsNeededTotal, daysLeft) ==
    MathCeil(NumSub(NumDiv(cutsNeededTotal, Num(daysLeft)), <<1, 2>>))

CutsPerDay(cutsNeededTotal, daysLeft) ==
    MathCeil(NumDiv(cutsNeededTotal, Num(daysLeft)))

\* data.user.simulatorValue || 0
SimValue(user) ==
    IF user.simulatorValue = <<>> THEN 0 ELSE user.simulatorValue[1]

NoView ==
    [screen |-> "none", now1 |-> 0, now2 |-> 0, now3 |-> 0,
     transactionsToday |-> <<>>, grossToday |-> Num(0), tipsToday |-> Num(0),
     dailyExpenses |-> Num(0), netToday |-> Num(0), startOfPeriod |-> 0,
     transactionsPeriod |-> <<>>, periodTotal |-> Num(0),
     goalProgress |-> Num(0), daysLeft |-> 0, remainingGoal |-> Num(0),
     cutsNeededTotal |-> Num(0), cutsPerDay |-> Num(0),
     goalCrushed |-> FALSE, simValue |-> 0]

OnboardingView == [NoView EXCEPT !.screen = "onboarding"]

\* lines 501-509: today's transactions, gross and tips
TodayStage(v, transactionsToday) ==
    [v EXCEPT !.transactionsToday = transactionsToday,
              !.grossToday = SumAmounts(transactionsToday),
              !.tipsToday = SumAmounts(TipsOf(transactionsToday))]

\* lines 511-516: the burn rate and net today
BurnStage(v, dailyExpenses) ==
    [v EXCEPT !.dailyExpenses = dailyExpenses,
              !.netToday = NumSub(v.grossToday, dailyExpenses)]

\* lines 518-519: the period and its transactions
PeriodStage(v, txs, startOfPeriod) ==
    [v EXCEPT !.startOfPeriod = startOfPeriod,
              !.transactionsPeriod = TransactionsPeriod(txs, startOfPeriod)]

\* lines 520-521 and 533-534: the total, the progress and what remains
GoalStage(v, goalAmount, periodTotal) ==
    [v EXCEPT !.periodTotal = periodTotal,
              !.goalProgress = GoalProgress(periodTotal, goalAmount),
              !.remainingGoal = RemainingGoal(goalAmount, periodTotal),
              !.cutsNeededTotal =
                  CutsNeededTotal(RemainingGoal(goalAmount, periodTotal))]

TotalStage(v, goalAmount) ==
    GoalStage(v, goalAmount, SumAmounts(v.transactionsPeriod))

\* lines 523-531: the days left
DaysStage(v, daysLeft) == [v EXCEPT !.daysLeft = daysLeft]

\* lines 535 and 638: the cuts per day and the "goal crushed" line
CutsStage(v, cutsPerDay) ==
    [v EXCEPT !.cutsPerDay = cutsPerDay,
              !.goalCrushed = NumLeq(cutsPerDay, Num(0))]

LastStage(v) == CutsStage(v, CutsPerDay(v.cutsNeededTotal, v.daysLeft))

\* The body of Dashboard below the onboarding gate, for the user `user`.
\* now1, now2 and now3 are the results of the three `new Date()` the
\* calculations make, in order.
CalculationsFor(d, user, now1, now2, now3) ==
    LET v0 == [NoView EXCEPT !.screen = "dashboard", !.now1 = now1,
                             !.now2 = now2, !.now3 = now3,
                             !.simValue = SimValue(user)]
        v1 == TodayStage(v0, TransactionsToday(d.transactions, now1))
        v2 == BurnStage(v1, DailyExpenses(d.expenses))
        v3 == PeriodStage(v2, d.transactions,
                          getStartOfPeriod(now2, user.goalType))
        v4 == TotalStage(v3, user.goalAmount)
        v5 == DaysStage(v4, DaysLeft(now3, user.goalType))
    IN  LastStage(v5)

Calculations(d, now1, now2, now3) ==
    CalculationsFor(d, d.user[1], now1, now2, now3)

(***************************************************************************)
(* HistoryModal                                                            *)
(***************************************************************************)
DaySummary(dateStr, dateObj, total, count) ==
    [dateStr |-> dateStr, dateObj |-> dateObj, total |-> total,
     count |-> count]

\* grouped[key], as the index of the entry in insertion order, or 0
KeyIndex(grouped, key) ==
    IF \E i \in DOMAIN grouped : grouped[i].dateStr = key
    THEN CHOOSE i \in DOMAIN grouped : grouped[i].dateStr = key
    ELSE 0

\* the body of the forEach callback, i the index of grouped[key] or 0
GroupInto(grouped, t, d, key, i) ==
    IF i = 0
    THEN Append(grouped, DaySummary(key, d, Num(t.amount), 1))
    ELSE [grouped EXCEPT ![i].total = NumAdd(@, Num(t.amount)),
                         ![i].count = @ + 1]

\* the forEach callback for t, d = new Date(t.date), key = d.toDateString()
GroupKeyed(grouped, t, d, key) ==
    GroupInto(grouped, t, d, key, KeyIndex(grouped, key))

GroupDated(grouped, t, d) == GroupKeyed(grouped, t, d, toDateString(d))

\* one round of transactions.forEach
GroupOne(grouped, t) == GroupDated(grouped, t, ParseISO(t.date))

RECURSIVE Grouped(_)
Grouped(txs) ==
    IF txs = <<>> THEN <<>>
    ELSE GroupOne(Grouped(SubSeq(txs, 1, Len(txs) - 1)), txs[Len(txs)])

\* the comparator with a and b exchanged: oldest day first
HistoryCompare_Ascending(a, b) == a.dateObj - b.dateObj

\* (a, b) => b.dateObj.getTime() - a.dateObj.getTime()
HistoryCompare(a, b) == b.dateObj - a.dateObj

\* insert x into the sorted list s, after the elements it does not precede
RECURSIVE InsertSorted(_, _)
InsertSorted(s, x) ==
    IF s = <<>> THEN <<x>>
    ELSE IF HistoryCompare(Head(s), x) > 0
         THEN <<x>> \o s
         ELSE <<Head(s)>> \o InsertSorted(Tail(s), x)

\* Array.prototype.sort with HistoryCompare (a stable sort)
RECURSIVE SortHistory(_)
SortHistory(s) ==
    IF s = <<>> THEN <<>>
    ELSE InsertSorted(SortHistory(SubSeq(s, 1, Len(s) - 1)), s[Len(s)])

HistoryList(txs) == SortHistory(Grouped(txs))

(***************************************************************************)
(* The page: mount, render, handlers                                       *)
(***************************************************************************)
TzOffsets == {-1, 0, 1}

\* every clock reading of the (UTC) days `days`
Instants(days) ==
    {day * TicksPerDay + tod : day \in days, tod \in 0..(TicksPerDay - 1)}

\* the page is first opened on Sunday 28 January 2024, UTC, one tick after
\* midnight: the local time of day then depends on the time zone
StartInstants == {DaysFromCivil(2024, 0, 28) * TicksPerDay + 1}

\* useState(getInitialData()), before the first render
Mount(c, z, saved) ==
    /\ clock = c
    /\ tz = z
    /\ ticks = 0
    /\ storage = saved
    /\ data = getInitialData(saved)
    /\ crashed = FALSE
    /\ view = NoView
    /\ historyOpen = FALSE
    /\ historyList = <<>>

Init ==
    \E c \in StartInstants, z \in TzOffsets :
        \E saved \in StoredRecords(c) : Mount(c, z, saved)

\* Dashboard reads data.transactions and data.expenses once a user is set
RenderThrows(d) == d.user # <<>> /\ ~({"transactions", "expenses"} \subseteq d.has)

\* One render of Dashboard for state d with history flag ho, followed by the
\* auto-save effect.  A render that throws unmounts the tree and saves nothing.
Commit(d, ho, now1, now2, now3) ==
    /\ data' = d
    /\ IF RenderThrows(d)
       THEN /\ crashed' = TRUE
            /\ view' = NoView
            /\ historyOpen' = FALSE
            /\ historyList' = <<>>
            /\ storage' = storage
       ELSE /\ crashed' = FALSE
            /\ view' = IF d.user = <<>> THEN OnboardingView
                       ELSE Calculations(d, now1, now2, now3)
            /\ historyOpen' = (ho /\ d.user # <<>>)
            /\ historyList' = IF ho /\ d.user # <<>>
                              THEN HistoryList(d.transactions) ELSE <<>>
            /\ storage' = saveData(d)
    /\ UNCHANGED tz

\* a render in which the clock does not advance between the reads
CommitNow(d, ho) ==
    /\ Commit(d, ho, clock, clock, clock)
    /\ UNCHANGED <<clock, ticks>>

\* the wall clock moves on
Tick ==
    /\ ticks < MaxTicks
    /\ clock' = clock + 1
    /\ ticks' = ticks + 1
    /\ UNCHANGED <<tz, storage, data, crashed, view, historyOpen,
                   historyList>>

\* Dashboard renders (first render, or a re-render after any state change);
\* the clock may advance between its `new Date()` calls
Render ==
    /\ ~crashed
    /\ \E s2 \in {0, 1}, s3 \in {0, 1} :
         /\ ticks + s2 + s3 <= MaxTicks
         /\ Commit(data, historyOpen, clock, clock + s2, clock + s2 + s3)
         /\ clock' = clock + s2 + s3
         /\ ticks' = ticks + s2 + s3

\* { ...data, user }
SpreadWithUser(d, user) ==
    IF d.js = "object"
    THEN [d EXCEPT !.has = @ \cup {"user"}, !.user = <<user>>]
    ELSE JsValue("object", {"user"}, <<user>>, <<>>, <<>>)

\* Onboarding.handleSubmit and onComplete
handleSubmit ==
    /\ ~crashed
    /\ view.screen = "onboarding"
    /\ \E name \in NameInputs, goalType \in GoalTypes,
          amount \in GoalAmountInputs :
         /\ Truthy(name) /\ Truthy(amount)
         /\ CommitNow(SpreadWithUser(data,
                UserData(name, goalType, parseFloat(amount), <<0>>)), FALSE)

OnDashboard == ~crashed /\ view.screen = "dashboard" /\ ~historyOpen

\* the new transaction put in front of the log
AppendTx_Prepend(txs, newTx) == <<newTx>> \o txs

\* [...prev.transactions, newTx]
AppendTx(txs, newTx) == Append(txs, newTx)

\* TransactionModal CONFIRM -> onSave -> handleTransaction
handleTransaction ==
    /\ OnDashboard
    /\ Len(data.transactions) < MaxTx
    /\ \E modal \in ModalChoices, val \in TxAmountInputs :
         /\ Truthy(val)
         /\ LET newTx == Transaction(clock, parseFloat(val), modal.type,
                                     modal.category, toISOString(clock))
            IN  CommitNow([data EXCEPT !.transactions = AppendTx(@, newTx)],
                          FALSE)

\* SettingsModal SAVE CHANGES -> onSave -> handleUpdateUser
handleUpdateUser ==
    /\ OnDashboard
    /\ \E name \in NameInputs, goalType \in GoalTypes,
          amount \in GoalAmountInputs :
         /\ Truthy(name) /\ Truthy(amount)
         /\ CommitNow([data EXCEPT !.user[1].name = name,
                                   !.user[1].goalType = goalType,
                                   !.user[1].goalAmount = parseFloat(amount)],
                      FALSE)

handleSimulatorChange ==
    /\ OnDashboard
    /\ \E val \in SimulatorInputs :
         CommitNow([data EXCEPT !.user[1].simulatorValue = <<parseInt(val)>>],
                   FALSE)

addExpense ==
    /\ OnDashboard
    /\ Len(data.expenses) < MaxExp
    /\ \E expName \in NameInputs, expAmount \in ExpAmountInputs,
          expFreq \in {"daily", "weekly"} :
         /\ Truthy(expName) /\ Truthy(expAmount)
         /\ LET newExp == Expense(clock, expName, parseFloat(expAmount),
                                  expFreq)
            IN  CommitNow([data EXCEPT !.expenses = Append(@, newExp)], FALSE)

removeExpense ==
    /\ OnDashboard
    /\ \E i \in DOMAIN data.expenses :
         LET id == data.expenses[i].id
             Keep(e) == e.id # id
         IN  CommitNow([data EXCEPT !.expenses = SelectSeq(@, Keep)], FALSE)

\* Reset All, confirmed: the record is removed and the page reloads
resetApp ==
    /\ OnDashboard
    /\ storage' = Missing
    /\ data' = getInitialData(Missing)
    /\ crashed' = FALSE
    /\ view' = NoView
    /\ historyOpen' = FALSE
    /\ historyList' = <<>>
    /\ UNCHANGED <<clock, tz, ticks>>

\* the filter keeping the transactions up to and at startOfDayIso
BeforeDay_OrAt(txs, startOfDayIso) ==
    LET Keep(t) == ~LexLess(startOfDayIso, t.date) IN SelectSeq(txs, Keep)

\* prev.transactions.filter(t => t.date < startOfDayIso)
BeforeDay(txs, startOfDayIso) ==
    LET Keep(t) == LexLess(t.date, startOfDayIso) IN SelectSeq(txs, Keep)

\* Reset Current Day, confirmed
resetDay ==
    /\ OnDashboard
    /\ CommitNow([data EXCEPT !.transactions =
                                 BeforeDay(@, toISOString(setHours0(clock)))],
                 FALSE)

\* the user reloads the page (also the only way on after a crash)
Reload ==
    /\ data' = getInitialData(storage)
    /\ crashed' = FALSE
    /\ view' = NoView
    /\ historyOpen' = FALSE
    /\ historyList' = <<>>
    /\ UNCHANGED <<clock, tz, ticks, storage>>

\* setHistoryOpen(true): HistoryModal renders over the Dashboard
OpenHistory ==
    /\ OnDashboard
    /\ CommitNow(data, TRUE)

\* HistoryModal onClose
CloseHistory ==
    /\ ~crashed
    /\ historyOpen
    /\ CommitNow(data, FALSE)

Next ==
    \/ Tick
    \/ Render
    \/ handleSubmit
    \/ handleTransaction
    \/ handleUpdateUser
    \/ handleSimulatorChange
    \/ addExpense
    \/ removeExpense
    \/ resetApp
    \/ resetDay
    \/ Reload
    \/ OpenHistory
    \/ CloseHistory

Spec == Init /\ [][Next]_vars

(***************************************************************************)
(* Specifications of the calculations alone: the page is opened on a       *)
(* stored snapshot drawn from a bounded set and Dashboard renders it.      *)
(***************************************************************************)
Snapshot(user, transactions, expenses) ==
    JsValue("object", AllKeys, <<user>>, transactions, expenses)

\* a transaction as handleTransaction made it `age` ticks before Date c
TxAt(c, age, amount, type, category) ==
    Transaction(c - age, amount, type, category, toISOString(c - age))

NextCalc == Render

\* --- the period: every day from 25 December 2023 over PeriodDays days ---
PeriodDays == 72

PeriodInstants ==
    LET first == DaysFromCivil(2023, 11, 25)
    IN  Instants(first..(first + PeriodDays - 1))

PeriodRecords(c) ==
    { Json(Snapshot(UserData("Ana", gt, 1000, <<0>>), <<>>, <<>>)) :
        gt \in GoalTypes }

InitPeriod ==
    \E c \in PeriodInstants, z \in TzOffsets :
        \E saved \in PeriodRecords(c) : Mount(c, z, saved)

SpecPeriod == InitPeriod /\ [][NextCalc]_vars

\* --- the goal: one transaction in the period, any goal, any weekday ---
WideGoalAmounts == {-100, 0, 1, 35, 100, 1000}
WideTotals == {-50, 0, 1, 35, 36, 250, 1000, 100000}

GoalInstants ==
    LET monday == DaysFromCivil(2024, 0, 29) IN Instants(monday..(monday + 6))

GoalRecords(c) ==
    { Json(Snapshot(UserData("Ana", gt, g, <<0>>),
                    <<TxAt(c, 0, a, "cash", "service")>>, <<>>)) :
        gt \in GoalTypes, g \in WideGoalAmounts, a \in WideTotals }

InitGoal ==
    \E c \in GoalInstants, z \in TzOffsets :
        \E saved \in GoalRecords(c) : Mount(c, z, saved)

SpecGoal == InitGoal /\ [][NextCalc]_vars

OnView == view.screen = "dashboard"

(***************************************************************************)
(* C1  With a goal amount > 0 and a period total >= 0 the goal progress    *)
(* lies between 0 and 100, however far the total exceeds the goal.         *)
(***************************************************************************)
C1_ProgressClamped ==
    (OnView /\ data.user[1].goalAmount > 0 /\ NumLeq(Num(0), view.periodTotal))
        => /\ NumLeq(Num(0), view.goalProgress)
           /\ NumLeq(view.goalProgress, Num(100))

\* a total far above the goal is shown as exactly 100
C1_Witness ==
    /\ OnView
    /\ data.user[1].goalAmount = 35
    /\ view.periodTotal = Num(100000)
    /\ view.goalProgress = Num(100)

(***************************************************************************)
(* C3  The start of the weekly period is a Monday at local midnight, not   *)
(* after the `now` it was computed from and less than 7 days before it.    *)
(***************************************************************************)
C3_WeeklyStartIsMonday ==
    (OnView /\ data.user[1].goalType = "weekly")
        => /\ getDay(view.startOfPeriod) = 1
           /\ (view.startOfPeriod + tz) % TicksPerDay = 0
           /\ view.startOfPeriod <= view.now2
           /\ view.now2 - view.startOfPeriod < 7 * TicksPerDay

\* on a Sunday whose week began in the previous month
C3_Witness ==
    /\ OnView
    /\ data.user[1].goalType = "weekly"
    /\ getDay(view.now2) = 0
    /\ getMonth(view.startOfPeriod) # getMonth(view.now2)
    /\ view.now2 - view.startOfPeriod >= 6 * TicksPerDay

(***************************************************************************)
(* C4  The days remaining are an integer >= 1: weekly, 7 - isoWeekday + 1  *)
(* with Sunday as 7; monthly, the last day of the month minus the day of   *)
(* the month plus 1.                                                       *)
(***************************************************************************)
IsoWeekday(t) == ((getDay(t) + 6) % 7) + 1

C4_DaysRemaining ==
    OnView
        => /\ view.daysLeft >= 1
           /\ data.user[1].goalType = "weekly"
                => view.daysLeft = 7 - IsoWeekday(view.now3) + 1
           /\ data.user[1].goalType = "monthly"
                => view.daysLeft =
                     DaysInMonth(getFullYear(view.now3), getMonth(view.now3))
                       - getDate(view.now3) + 1

\* the last day of a month in December, when the next month is in a new year
C4_Witness ==
    /\ OnView
    /\ data.user[1].goalType = "monthly"
    /\ getMonth(view.now3) = 11
    /\ getDate(view.now3) = 31
    /\ view.daysLeft = 1

(***************************************************************************)
(* C8  The cuts needed per day are ceil((max(0, goal - total) / 35) /      *)
(* days remaining): 0, shown as "goal crushed", exactly when the total has *)
(* reached the goal, and at least 1 otherwise.                             *)
(***************************************************************************)
C8_CutsPerDay ==
    OnView =>
      LET goal == data.user[1].goalAmount
          total == view.periodTotal[1]
          remaining == IF goal - total > 0 THEN goal - total ELSE 0
          k == view.cutsPerDay[1]
          perCutDay == AVG_CUT_PRICE * view.daysLeft
      IN  /\ view.periodTotal[2] = 1
          /\ view.cutsPerDay[2] = 1
          /\ k * perCutDay >= remaining
          /\ (k - 1) * perCutDay < remaining
          /\ (k = 0) <=> (total >= goal)
          /\ view.goalCrushed <=> (total >= goal)
          /\ (total < goal) => k >= 1

\* goal 1000, total 250, 5 days remaining: 5 cuts per day
C8_Witness ==
    /\ OnView
    /\ data.user[1].goalAmount = 1000
    /\ view.periodTotal = Num(250)
    /\ view.daysLeft = 5
    /\ view.remainingGoal = Num(750)
    /\ view.cutsPerDay = Num(5)
    /\ ~view.goalCrushed

(***************************************************************************)
(* More specifications of the calculations alone                           *)
(***************************************************************************)
\* the sequences over K of length at most n
SeqsUpTo(K, n) == UNION {[1..m -> K] : m \in 0..n}

\* --- the day window: logs of up to MaxLog transactions around `now` ---
MaxLog == 2

WindowKinds ==
    { [amount |-> 200, type |-> "cash", category |-> "service"],
      [amount |-> 50, type |-> "cash", category |-> "tip"],
      [amount |-> 200, type |-> "card", category |-> "undefined"],
      [amount |-> -50, type |-> "cash", category |-> "tip"] }

WindowTxs(c) ==
    { TxAt(c, age, k.amount, k.type, k.category) :
        age \in {0, 1, TicksPerDay}, k \in WindowKinds }

WindowRecords(c) ==
    { Json(Snapshot(UserData("Ana", "weekly", 1000, <<0>>), txs, <<>>)) :
        txs \in SeqsUpTo(WindowTxs(c), MaxLog) }

InitWindow ==
    \E c \in StartInstants, z \in TzOffsets :
        \E saved \in WindowRecords(c) : Mount(c, z, saved)

SpecWindow == InitWindow /\ [][NextCalc]_vars

\* --- the day window with entries being made: stored logs of earlier
\* transactions, and TransactionModal confirming new ones at `now` ---
LogTxs(c) ==
    { TxAt(c, age, k.amount, k.type, k.category) :
        age \in {1, TicksPerDay}, k \in WindowKinds }

LogRecords(c) ==
    { Json(Snapshot(UserData("Ana", gt, 1000, <<0>>), txs, <<>>)) :
        gt \in GoalTypes, txs \in SeqsUpTo(LogTxs(c), MaxLog) }

InitLog ==
    \E c \in StartInstants, z \in TzOffsets :
        \E saved \in LogRecords(c) : Mount(c, z, saved)

NextLog == Render \/ handleTransaction

SpecLog == InitLog /\ [][NextLog]_vars

\* --- the burn rate: up to MaxBurn expenses, with and without income ---
MaxBurn == 2

BurnExpenses(c) ==
    { Expense(c - age, "Rent", amount, frequency) :
        age \in {1, 2}, amount \in {10, 70}, frequency \in {"daily", "weekly"} }

BurnRecords(c) ==
    { Json(Snapshot(UserData("Ana", "weekly", 1000, <<0>>), txs, exps)) :
        txs \in {<<>>, <<TxAt(c, 0, 200, "cash", "service")>>},
        exps \in SeqsUpTo(BurnExpenses(c), MaxBurn) }

InitBurn ==
    \E c \in StartInstants, z \in TzOffsets :
        \E saved \in BurnRecords(c) : Mount(c, z, saved)

SpecBurn == InitBurn /\ [][NextCalc]_vars

\* --- the history: logs of up to MaxHistory transactions over three days ---
MaxHistory == 3

HistoryTxs(c) ==
    { TxAt(c, age, amount, "cash", "service") :
        age \in {0, 1, TicksPerDay, 2 * TicksPerDay}, amount \in {50, 200} }

HistoryRecords(c) ==
    { Json(Snapshot(UserData("Ana", "weekly", 1000, <<0>>), txs, <<>>)) :
        txs \in SeqsUpTo(HistoryTxs(c), MaxHistory) }

InitHistory ==
    \E c \in StartInstants, z \in TzOffsets :
        \E saved \in HistoryRecords(c) : Mount(c, z, saved)

NextHistory == Render \/ OpenHistory \/ CloseHistory

SpecHistory == InitHistory /\ [][NextHistory]_vars

(***************************************************************************)
(* Helpers of the statements below                                         *)
(***************************************************************************)
\* the instant a transaction's timestamp denotes
Timestamp(t) == ParseISO(t.date)

\* local midnight of the local day of Date t
LocalMidnight(t) == t - ((t + tz) % TicksPerDay)

\* the number of the local calendar day of Date t
LocalDay(t) == (t + tz) \div TicksPerDay

\* the subsequence of the elements of s at the indices in I
RECURSIVE Pick(_, _)
Pick(s, I) ==
    IF s = <<>> THEN <<>>
    ELSE LET n == Len(s)
             front == Pick(SubSeq(s, 1, n - 1), I)
         IN  IF n \in I THEN Append(front, s[n]) ELSE front

\* the sum of f over the finite set I
RECURSIVE SumOver(_, _)
SumOver(I, f) ==
    IF I = {} THEN 0
    ELSE LET i == CHOOSE j \in I : TRUE IN f[i] + SumOver(I \ {i}, f)

Amounts(txs) == [i \in DOMAIN txs |-> txs[i].amount]

TodayIdx == {i \in DOMAIN data.transactions :
               Timestamp(data.transactions[i]) >= LocalMidnight(view.now1)}

PeriodIdx == {i \in DOMAIN data.transactions :
                Timestamp(data.transactions[i]) >= view.startOfPeriod}

(***************************************************************************)
(* C2  With a goal amount of 0 the goal progress is 100 for every period   *)
(* total; it is never NaN.                                                 *)
(***************************************************************************)
C2_ZeroGoalIsFullProgress ==
    (OnView /\ data.user[1].goalAmount = 0) => view.goalProgress = Num(100)

(***************************************************************************)
(* C5  As claimed: gross today (the period total) counts a transaction iff *)
(* its timestamp lies in start <= timestamp < now.                         *)
(***************************************************************************)
C5_HalfOpenWindow ==
    OnView =>
      LET txs == data.transactions
          today == {i \in TodayIdx : Timestamp(txs[i]) < view.now1}
          period == {i \in PeriodIdx : Timestamp(txs[i]) < view.now2}
      IN  /\ view.transactionsToday = Pick(txs, today)
          /\ view.grossToday = Num(SumOver(today, Amounts(txs)))
          /\ view.transactionsPeriod = Pick(txs, period)
          /\ view.periodTotal = Num(SumOver(period, Amounts(txs)))

(***************************************************************************)
(* C5  As amended: gross today counts a transaction iff its timestamp is   *)
(* at or after local midnight of today, and the period total iff it is at  *)
(* or after the start of the period; there is no upper end, so a           *)
(* transaction stamped at `now` is counted, as is one exactly at start.    *)
(***************************************************************************)
C5_WindowFromStart ==
    OnView =>
      LET txs == data.transactions
      IN  /\ view.transactionsToday = Pick(txs, TodayIdx)
          /\ view.grossToday = Num(SumOver(TodayIdx, Amounts(txs)))
          /\ view.transactionsPeriod = Pick(txs, PeriodIdx)
          /\ view.periodTotal = Num(SumOver(PeriodIdx, Amounts(txs)))

\* one transaction of yesterday left out, one stamped at `now`, which is also
\* local midnight, counted
C5_Witness ==
    /\ OnView
    /\ view.now1 = LocalMidnight(view.now1)
    /\ Len(data.transactions) = 2
    /\ Timestamp(data.transactions[1]) < view.now1
    /\ Timestamp(data.transactions[2]) = view.now1
    /\ view.transactionsToday = <<data.transactions[2]>>

(***************************************************************************)
(* C6  Tips today are the sum of the amounts of exactly the transactions   *)
(* of today whose category is 'tip'; a 'service' transaction or one with   *)
(* no category counts towards gross today only, so tips today <= gross     *)
(* today when the amounts are positive.                                    *)
(***************************************************************************)
C6_TipsToday ==
    OnView =>
      LET txs == data.transactions
          tips == {i \in TodayIdx : txs[i].category = "tip"}
      IN  /\ view.tipsToday = Num(SumOver(tips, Amounts(txs)))
          /\ view.grossToday =
               Num(SumOver(tips, Amounts(txs))
                     + SumOver(TodayIdx \ tips, Amounts(txs)))
          /\ (\A i \in TodayIdx : txs[i].amount > 0)
                => NumLeq(view.tipsToday, view.grossToday)

\* service 200 and tip 50 today: gross 250, tips 50
C6_Witness ==
    /\ OnView
    /\ Len(data.transactions) = 2
    /\ TodayIdx = {1, 2}
    /\ data.transactions[1].category = "service"
    /\ data.transactions[1].amount = 200
    /\ data.transactions[2].category = "tip"
    /\ data.transactions[2].amount = 50
    /\ view.grossToday = Num(250)
    /\ view.tipsToday = Num(50)

(***************************************************************************)
(* C7  The daily burn is the sum over all expenses of the amount of a      *)
(* daily expense and a seventh of the amount of a weekly one, unrounded;   *)
(* net today is gross today minus it; no expenses give 0.                  *)
(***************************************************************************)
C7_DailyBurn ==
    OnView =>
      LET exps == data.expenses
          daily == {i \in DOMAIN exps : exps[i].frequency = "daily"}
          weekly == {i \in DOMAIN exps : exps[i].frequency = "weekly"}
          amount == [i \in DOMAIN exps |-> exps[i].amount]
      IN  /\ NumMul(Num(7), view.dailyExpenses) =
               Num(7 * SumOver(daily, amount) + SumOver(weekly, amount))
          /\ NumAdd(view.netToday, view.dailyExpenses) = view.grossToday
          /\ exps = <<>> => view.dailyExpenses = Num(0)

\* a weekly 10 and a daily 70 with 200 earned: burn 10/7 + 70, net 200 - burn
C7_Witness ==
    /\ OnView
    /\ Len(data.expenses) = 2
    /\ view.dailyExpenses = <<500, 7>>
    /\ view.grossToday = Num(200)
    /\ view.netToday = <<900, 7>>

(***************************************************************************)
(* C9  The history has exactly one entry per local calendar day present in *)
(* the log, with the number of that day's transactions and the sum of      *)
(* their amounts, most recent day first, whatever the order of the log.    *)
(***************************************************************************)
C9_HistoryGrouping ==
    (OnView /\ historyOpen) =>
      LET txs == data.transactions
          days == {LocalDay(Timestamp(txs[i])) : i \in DOMAIN txs}
          DayOf(e) == LET f == e.dateStr
                      IN  DaysFromCivil(f[4], f[2], f[3])
          OnDay(day) == {i \in DOMAIN txs : LocalDay(Timestamp(txs[i])) = day}
      IN  /\ Len(historyList) = Cardinality(days)
          /\ {DayOf(historyList[k]) : k \in DOMAIN historyList} = days
          /\ \A k \in DOMAIN historyList :
               /\ historyList[k].count = Cardinality(OnDay(DayOf(historyList[k])))
               /\ historyList[k].total =
                    Num(SumOver(OnDay(DayOf(historyList[k])), Amounts(txs)))
          /\ \A j, k \in DOMAIN historyList :
               j < k => DayOf(historyList[j]) > DayOf(historyList[k])

\* three days in a log that is not in time order
C9_Witness ==
    /\ OnView
    /\ historyOpen
    /\ Len(historyList) = 3
    /\ Timestamp(data.transactions[1]) > Timestamp(data.transactions[2])
    /\ Timestamp(data.transactions[3]) > Timestamp(data.transactions[1])

(***************************************************************************)
(* C10  Loading a missing or malformed record (text that does not parse,   *)
(* or JSON that is not an object with the user, transactions and expenses  *)
(* of a snapshot) yields the empty snapshot.                               *)
(***************************************************************************)
WellFormed(v) == v.js = "object" /\ v.has = AllKeys

Malformed(saved) == saved.kind # "json" \/ ~WellFormed(saved.value)

\* view.screen = "none": the page has just loaded `storage`
JustLoaded == view.screen = "none" /\ ~crashed

C10_LoadDegradesToEmpty ==
    (JustLoaded /\ Malformed(storage)) => data = EmptyData

(***************************************************************************)
(* The page from a first visit: nothing is stored, so the snapshot starts  *)
(* as the empty one and everything later is what the handlers saved.       *)
(***************************************************************************)
InitFresh ==
    \E c \in StartInstants, z \in TzOffsets : Mount(c, z, Missing)

SpecFresh == InitFresh /\ [][Next]_vars

\* --- the day reset: stored logs of earlier transactions, new entries at
\* `now`, and Reset Current Day ---
NextReset == Render \/ handleTransaction \/ resetDay

SpecReset == InitLog /\ [][NextReset]_vars

\* the indices of the transactions stamped before the local midnight of c
BeforeIdx(c) ==
    {i \in DOMAIN data.transactions :
        Timestamp(data.transactions[i]) < LocalMidnight(c)}

\* what the page computes from the snapshot at the clock reading c
At(c) == Calculations(data, c, c, c)

C12_AmountsPositive ==
    /\ \A i \in DOMAIN data.transactions : data.transactions[i].amount > 0
    /\ \A i \in DOMAIN data.expenses : data.expenses[i].amount > 0
    /\ data.user # <<>> => data.user[1].goalAmount > 0

(***************************************************************************)
(* C13  As claimed: no two transactions of the log have the same id and    *)
(* the ids strictly increase along the log, also when two transactions     *)
(* are added at the same clock reading.                                    *)
(***************************************************************************)
C13_IdsIncrease ==
    \A i, j \in DOMAIN data.transactions :
        i < j => data.transactions[i].id < data.transactions[j].id

(***************************************************************************)
(* C14  Onboarding is irreversible: the snapshot starts as the empty one,  *)
(* with no user; while there is no user the snapshot is the empty one and  *)
(* no step adds a transaction or an expense; and a step that takes the     *)
(* user away is the confirmed Reset All, which leaves the empty snapshot.  *)
(* So the user stays through every handleTransaction, addExpense,          *)
(* removeExpense, handleUpdateUser, handleSimulatorChange and resetDay.    *)
(***************************************************************************)
C14_OnboardingIrreversible ==
    /\ data = EmptyData
    /\ [](data.user = <<>> => data = EmptyData)
    /\ [][data.user = <<>> =>
             /\ data'.transactions = <<>>
             /\ data'.expenses = <<>>]_vars
    /\ [][(data.user # <<>> /\ data'.user = <<>>) =>
             (resetApp /\ data' = EmptyData)]_vars

\* a user is there, with a transaction and an expense, after a simulator
\* change, a change of the settings and a reload
C14_Witness ==
    /\ data.user # <<>>
    /\ data.user[1].simulatorValue = <<20>>
    /\ data.user[1].goalType = "monthly"
    /\ Len(data.transactions) = 1
    /\ Len(data.expenses) = 1
    /\ view = NoView
    /\ storage = saveData(data)

\* s is an initial part of t
IsPrefix(s, t) == Len(s) <= Len(t) /\ SubSeq(t, 1, Len(s)) = s

(***************************************************************************)
(* C15  A transaction never changes once it is in the log and leaves it    *)
(* only through a reset: handleTransaction appends exactly one element to  *)
(* the end of the log; addExpense, removeExpense, handleUpdateUser and     *)
(* handleSimulatorChange leave the log as it is; and over every step that  *)
(* is not resetDay or resetApp the old log is an initial part of the new   *)
(* one, each transaction keeping its id, amount, type, category, date and  *)
(* position.                                                               *)
(***************************************************************************)
C15_LogAppendOnly ==
    [][/\ handleTransaction =>
            /\ Len(data'.transactions) = Len(data.transactions) + 1
            /\ IsPrefix(data.transactions, data'.transactions)
       /\ (addExpense \/ removeExpense \/ handleUpdateUser
             \/ handleSimulatorChange) =>
            data'.transactions = data.transactions
       /\ ~(resetDay \/ resetApp) =>
            IsPrefix(data.transactions, data'.transactions)]_vars

\* a log of two different transactions, the second one appended later, kept
\* through an added expense, a change of the settings and of the simulator
C15_Witness ==
    /\ OnView
    /\ Len(data.transactions) = 2
    /\ data.transactions[1].id < data.transactions[2].id
    /\ data.transactions[1].amount # data.transactions[2].amount
    /\ Len(data.expenses) = 1
    /\ data.user[1].goalType = "monthly"
    /\ data.user[1].simulatorValue = <<20>>

\* the view with the clock readings it was computed from left out
Derived(v) == [v EXCEPT !.now1 = 0, !.now2 = 0, !.now3 = 0]

(***************************************************************************)
(* C16  As claimed: the values of a render are those of one computation    *)
(* from the snapshot and a single `now`: gross, tips, burn, net, period    *)
(* start, period total, progress, days left and cuts per day all equal     *)
(* what the calculations give for the snapshot at one clock reading.       *)
(***************************************************************************)
C16_SingleNow ==
    OnView =>
      \E n \in {view.now1, view.now2, view.now3} :
          Derived(view) = Derived(At(n))

\* the expenses are one weekly expense of 70 and one daily expense of 10
IsWeekly70Daily10 ==
    /\ Len(data.expenses) = 2
    /\ {<<data.expenses[i].frequency, data.expenses[i].amount>> :
           i \in DOMAIN data.expenses} = {<<"weekly", 70>>, <<"daily", 10>>}

(***************************************************************************)
(* C17  As claimed: for one weekly expense of 70 and one daily expense of  *)
(* 10 the daily equivalent is 80/7 + 10, i.e. 19.857...                    *)
(***************************************************************************)
C17_DailyEquivalent ==
    (OnView /\ IsWeekly70Daily10) =>
      \/ view.dailyExpenses = NumAdd(NumDiv(Num(80), Num(7)), Num(10))
      \/ /\ NumLeq(<<19857, 1000>>, view.dailyExpenses)
         /\ NumLess(view.dailyExpenses, <<19858, 1000>>)

(***************************************************************************)
(* C17  As amended: for one weekly expense of 70 and one daily expense of  *)
(* 10 the daily equivalent is 70/7 + 10, i.e. 20.                          *)
(***************************************************************************)
C17_DailyEquivalentIs20 ==
    (OnView /\ IsWeekly70Daily10) =>
      /\ view.dailyExpenses = NumAdd(NumDiv(Num(70), Num(7)), Num(10))
      /\ view.dailyExpenses = Num(20)

\* the dashboard showing a burn of 20 for exactly these two expenses
C17_Witness ==
    /\ OnView
    /\ IsWeekly70Daily10
    /\ data.expenses[1].frequency = "weekly"
    /\ view.dailyExpenses = Num(20)

(***************************************************************************)
(* C18  As claimed: in every render the start of the period is at or       *)
(* before today's local midnight, so every transaction counted in gross    *)
(* today is counted in the period total, and with all amounts positive     *)
(* gross today <= period total.                                            *)
(***************************************************************************)
C18_TodayWithinPeriod ==
    OnView =>
      /\ view.startOfPeriod <= LocalMidnight(view.now1)
      /\ TodayIdx \subseteq PeriodIdx
      /\ (\A i \in DOMAIN data.transactions :
              data.transactions[i].amount > 0)
            => NumLeq(view.grossToday, view.periodTotal)

====
